---- MODULE Spec2Model ----
(***************************************************************************)
(* Model of the graphql-inspector CLI "run" pipeline (src/unnamed/part_000)*)
(* together with the command model of the configuration module             *)
(* (transformProject and the is*Command guards, validate.ts 227-293) and   *)
(* the validate / similar command bodies the pipeline dispatches to.       *)
(*                                                                         *)
(* run() is one sequential Listr (exitOnError) of five setup tasks and one *)
(* "Running commands" task that returns a concurrent sub-Listr with one    *)
(* task per configured command.  A command task is an async function: it   *)
(* runs without preemption between two awaits, so every action below is    *)
(* the code between two suspension points.                                 *)
(*                                                                         *)
(* A command collection is the sequence of the entries of the `commands`   *)
(* object in its own enumeration order (the order of for...in); every      *)
(* entry's body is an object, as the Commands types declare.  External     *)
(* collaborators (graphql-config, the loaders, runDiff, runCoverage,       *)
(* validateDocuments, findSimilar) return or throw nondeterministically.   *)
(***************************************************************************)
EXTENDS Integers, Sequences, FiniteSets, TLC

\* ------------------------------------------------------------------ bounds
MaxCmds == 2
MaxDocs == 2
MaxFindings == 2
MaxTypes == 2

\* --------------------------------------------------------------- constants
\* undefined / absent
None == "none"

\* supportedCommands (validate.ts 227-232)
supportedCommands == {"diff", "coverage", "similar", "validate"}

\* Task labels of the modelled configurations that are no command names.
CustomLabels == {"t1", "t2"}

\* Task labels of the pipeline's configurations.
Labels == {"diff"} \cup CustomLabels

\* Values of the `command` field of a raw entry: absent, a known name, an unknown one.
Tags == {None, "bogus"} \cup supportedCommands

\* Project names of a configuration, and the name options.project may carry.
DefaultProject == "default"
NamedProject == "p1"

\* ------------------------------------------------------------ error texts
\* Messages are tuples of strings (template literals keep their parts).
ErrNoExtension == <<"You GraphQL Config has no 'inspector' extension">>
ErrDocumentsMissing == <<"Documents are missing">>
ErrSummary == <<"Something went wrong - check the above report">>
ErrInvalidDocuments == <<"Some documents are invalid">>
MsgAllValid == <<"All documents are valid">>
MsgNoSimilar == <<"No similar types found">>
ErrNotSupported(kind) == <<"Command", kind, "not supported">>

\* Errors raised by the external collaborators (graphql-config, loaders, core).
ErrConfig == <<"ConfigNotFound">>
ErrProject == <<"ProjectNotFound">>
ErrSchema == <<"SchemaLoadError">>
ErrDocuments == <<"DocumentLoadError">>
ErrDiff == <<"DiffError">>
ErrCoverage == <<"CoverageError">>
ErrSimilar == <<"SimilarError">>

\* -------------------------------------------------------------- utilities
isNonNullable(val) == val # None

pick(val, defaultValue) == IF isNonNullable(val) THEN val ELSE defaultValue

Line(kind, text) == [kind |-> kind, text |-> text]

Last(s) == s[Len(s)]

\* ------------------------------------------------- command model (config)
\* A command body: the fields of DiffCommand / CoverageCommand /
\* SimilarCommand / ValidateCommand that the pipeline reads; None = absent.
Body(command, schema, documents, deprecated, write) ==
  [command |-> command, schema |-> schema, documents |-> documents,
   deprecated |-> deprecated, write |-> write]

Entry(label, body) == [label |-> label, body |-> body]

isDiffCommand(command) == command.command = "diff"

isCoverageCommand(command) == command.command = "coverage"

isSimilarCommand(command) == command.command = "similar"

isValidateCommand(command) == command.command = "validate"

isCommandName(name) == name \in supportedCommands

\* Variant of SpreadOver: the label is not attached as the kind tag.
SpreadWithoutTag(name, config) == config

\* {command: name, ...config}: the spread comes last, so a `command` field of
\* config itself overrides the label.
SpreadOver(name, config) ==
  IF config.command # None THEN config ELSE [config EXCEPT !.command = name]

\* One iteration of the loop of transformProject.
TransformEntry(name, config) ==
  IF isCommandName(name) THEN SpreadOver(name, config) ELSE config

\* transformProject: `commands` is filled in the enumeration order of the raw
\* object, under the same keys.
transformProject(raw) ==
  [i \in 1..Len(raw) |-> Entry(raw[i].label, TransformEntry(raw[i].label, raw[i].body))]

\* ------------------------------------------------ modelled configurations
SchemaPtr == "old.graphql"
DocPtr == "docs/*.graphql"

\* Bodies of the pipeline's configurations under a label that is no command
\* name: every tag, a schema pointer for diff, documents for coverage/validate.
ExplicitBodies ==
  {Body(c, IF c = "diff" THEN SchemaPtr ELSE None, d, None, None) :
     c \in Tags, d \in {None}}
  \cup {Body(c, None, DocPtr, None, None) : c \in {"coverage", "validate"}}

\* Bodies under a label that is a command name (DiffCommandShort, ...): untagged.
ShortBodies(name) ==
  {Body(None, IF name = "diff" THEN SchemaPtr ELSE None, d, None, None) :
     d \in IF name \in {"coverage", "validate"} THEN {None, DocPtr} ELSE {None}}

PipelineEntries ==
  {Entry(l, b) : l \in CustomLabels, b \in ExplicitBodies}
  \cup UNION {{Entry(l, b) : b \in ShortBodies(l)} : l \in Labels \cap supportedCommands}

\* An object has one value per key: the labels of a collection are distinct.
DistinctLabels(raw) ==
  \A i, j \in 1..Len(raw) : i # j => raw[i].label # raw[j].label

CollectionsOver(entries, n) ==
  UNION {{raw \in [1..k -> entries] : DistinctLabels(raw)} : k \in 0..n}

RawCollections == CollectionsOver(PipelineEntries, MaxCmds)

\* A project handle of the loaded configuration: its name, whether it has the
\* 'inspector' extension, and its `documents` declaration.
Project(name, hasExtension, documents) ==
  [name |-> name, hasExtension |-> hasExtension, documents |-> documents]

NoProject == Project(None, FALSE, None)

\* No error is pending.
NoError == <<>>

\* ------------------------------------------------------------------- state
VARIABLES
  options,      \* the argument of run(): [project]
  pc,           \* position of run(): the Listr task about to run, or after it
  ctx,          \* the Listr context: config, project, schema, documents
  rawCommands,  \* project.extension('inspector').commands as read by the fan-out
  commands,     \* config.inspector.commands: the normalized collection
  renderers,    \* ctx.renderers: one ConsoleBufferRenderer (its lines) per command
  okWrites,     \* the values assigned to ctx.ok, in order; ctx.ok is the last one
  tpc,          \* position of each command task
  calls,        \* per command task, the collaborator operations it has invoked
  finished,     \* command tasks in the order they settled
  stdout,       \* what r.print() has written: one element per printed buffer
  topOut,       \* what commandRenderer has received
  files,        \* the paths written by writeFileSync, in order
  thrown,       \* the error on its way to the catch of run(), NoError if none
  exits,        \* the arguments of the process.exit calls made
  log           \* Listr tasks of the outer list, in the order they ran

vars == <<options, pc, ctx, rawCommands, commands, renderers, okWrites, tpc, calls,
          finished, stdout, topOut, files, thrown, exits, log>>

taskVars == <<rawCommands, commands, renderers, okWrites, tpc, calls, finished>>

outVars == <<stdout, topOut, files, exits>>

Init ==
  /\ options \in {[project |-> p] : p \in {None, NamedProject}}
  /\ pc = "Loading config"
  /\ ctx = [config |-> None, project |-> NoProject, schema |-> None, documents |-> None]
  /\ rawCommands = <<>>
  /\ commands = <<>>
  /\ renderers = <<>>
  /\ okWrites = <<>>
  /\ tpc = <<>>
  /\ calls = <<>>
  /\ finished = <<>>
  /\ stdout = <<>>
  /\ topOut = <<>>
  /\ files = <<>>
  /\ thrown = NoError
  /\ exits = <<>>
  /\ log = <<>>

\* ------------------------------------------------------------ setup stages
\* A task of the outer Listr that throws: exitOnError rejects listr.run() with
\* the error, and no later task is run.
StageFails(title, error) ==
  /\ pc' = "catch"
  /\ thrown' = error
  /\ log' = Append(log, [title |-> title, result |-> "failed"])

StageDone(title, next) ==
  /\ pc' = next
  /\ log' = Append(log, [title |-> title, result |-> "done"])
  /\ UNCHANGED thrown

\* task 'Loading config': ctx.config = await findAndLoadConfig(options.config)
LoadingConfig ==
  /\ pc = "Loading config"
  /\ \/ /\ ctx' = [ctx EXCEPT !.config = "config"]
        /\ StageDone("Loading config", "Picking project")
     \/ /\ StageFails("Loading config", ErrConfig)
        /\ UNCHANGED ctx
  /\ UNCHANGED <<options, taskVars, outVars>>

\* GraphQLConfig.getDefault(): the project named 'default'.
getDefault == DefaultProject

\* GraphQLConfig.getProject(name): the default project when no name is given.
getProject(name) == IF name = None THEN getDefault ELSE name

\* The project the 'Picking project' task asks the configuration for.
PickedName(opts) ==
  IF opts.project # None THEN getDefault ELSE getProject(opts.project)

\* task 'Picking project'; the configuration may hold no such project.
PickingProject ==
  /\ pc = "Picking project"
  /\ \/ \E ext \in BOOLEAN, docs \in {None, DocPtr} :
          /\ ctx' = [ctx EXCEPT !.project = Project(PickedName(options), ext, docs)]
          /\ StageDone("Picking project", "Checking for extension")
     \/ /\ StageFails("Picking project", ErrProject)
        /\ UNCHANGED ctx
  /\ UNCHANGED <<options, taskVars, outVars>>

\* Variant of hasExtension: the extension check never fails.
hasExtensionAlways(project) == TRUE

\* project.hasExtension('inspector')
hasExtension(project) == project.hasExtension

\* task 'Checking for extension'
CheckingForExtension ==
  /\ pc = "Checking for extension"
  /\ IF ~hasExtension(ctx.project)
       THEN StageFails("Checking for extension", ErrNoExtension)
       ELSE StageDone("Checking for extension", "Loading schema")
  /\ UNCHANGED <<options, ctx, taskVars, outVars>>

\* task 'Loading schema': ctx.schema = await ctx.project.getSchema(...)
LoadingSchema ==
  /\ pc = "Loading schema"
  /\ \/ /\ ctx' = [ctx EXCEPT !.schema = "schema"]
        /\ StageDone("Loading schema", "Loading documents")
     \/ /\ StageFails("Loading schema", ErrSchema)
        /\ UNCHANGED ctx
  /\ UNCHANGED <<options, taskVars, outVars>>

\* Variant of SkipDocuments: the stage is never skipped.
SkipDocumentsNever(c) == FALSE

\* skip: ctx => !ctx.project.documents
SkipDocuments(c) == c.project.documents = None

\* task 'Loading documents': skipped, or ctx.documents = await getDocuments()
LoadingDocuments ==
  /\ pc = "Loading documents"
  /\ IF SkipDocuments(ctx)
       THEN /\ pc' = "Running commands"
            /\ log' = Append(log, [title |-> "Loading documents", result |-> "skipped"])
            /\ UNCHANGED <<ctx, thrown>>
       ELSE \/ /\ ctx' = [ctx EXCEPT !.documents = "projectDocuments"]
               /\ StageDone("Loading documents", "Running commands")
            \/ /\ StageFails("Loading documents", ErrDocuments)
               /\ UNCHANGED ctx
  /\ UNCHANGED <<options, taskVars, outVars>>

\* ------------------------------------------------------- validate command
\* An InvalidDocument of validateDocuments: its source, errors, deprecated usages.
InvalidDocument(source, errors, deprecated) ==
  [source |-> source, errors |-> errors, deprecated |-> deprecated]

HasErrors(doc) == doc.errors > 0

HasDeprecated(doc) == doc.deprecated > 0

\* Variant of countErrors: every invalid document counts as one with errors.
countErrorsOfAll(invalidDocuments) == Len(invalidDocuments)

countErrors(invalidDocuments) ==
  IF Len(invalidDocuments) > 0 THEN Len(SelectSeq(invalidDocuments, HasErrors)) ELSE 0

countDeprecated(invalidDocuments) ==
  IF Len(invalidDocuments) > 0 THEN Len(SelectSeq(invalidDocuments, HasDeprecated)) ELSE 0

Plural(n, word) == IF n > 1 THEN word \o "s" ELSE word

\* invalidDocuments.forEach(doc => { if (doc.errors.length) renderer.emit(...) })
RenderInvalid(docs) ==
  LET shown == SelectSeq(docs, HasErrors)
  IN [k \in 1..Len(shown) |-> Line("emit", <<"invalid", shown[k].source>>)]

\* invalidDocuments.forEach(doc => { if (doc.deprecated.length) renderer.emit(...) })
RenderDeprecated(docs) ==
  LET shown == SelectSeq(docs, HasDeprecated)
  IN [k \in 1..Len(shown) |-> Line("emit", <<"deprecated", shown[k].source>>)]

\* Variant of runValidate: the success line does not depend on the error count
\* (`if (!options.deprecated)` instead of `else if`).
runValidateSuccessDespiteErrors(invalidDocuments, deprecatedOption) ==
  IF Len(invalidDocuments) = 0
    THEN [lines |-> <<Line("success", MsgAllValid)>>, threw |-> FALSE]
    ELSE
      LET errorsCount == countErrors(invalidDocuments)
          deprecated == countDeprecated(invalidDocuments)
      IN [lines |-> (IF errorsCount > 0 THEN RenderInvalid(invalidDocuments) ELSE <<>>)
                    \o (IF ~deprecatedOption THEN <<Line("success", MsgAllValid)>> ELSE <<>>)
                    \o (IF deprecated > 0 THEN RenderDeprecated(invalidDocuments) ELSE <<>>),
          threw |-> errorsCount > 0 \/ (deprecated > 0 /\ deprecatedOption)]

\* runValidate on the result of validateDocuments: the lines it hands to the
\* renderer and whether it throws 'Some documents are invalid'.
runValidate(invalidDocuments, deprecatedOption) ==
  IF Len(invalidDocuments) = 0
    THEN [lines |-> <<Line("success", MsgAllValid)>>, threw |-> FALSE]
    ELSE
      LET errorsCount == countErrors(invalidDocuments)
          deprecated == countDeprecated(invalidDocuments)
          errorLines ==
            IF errorsCount > 0
              THEN <<Line("emit", <<"Detected", ToString(errorsCount),
                                    Plural(errorsCount, "invalid document")>>)>>
                   \o RenderInvalid(invalidDocuments)
              ELSE IF ~deprecatedOption
                THEN <<Line("success", MsgAllValid)>>
                ELSE <<>>
          deprecatedLines ==
            IF deprecated > 0
              THEN <<Line("emit", <<"Detected", ToString(deprecated),
                                    Plural(deprecated, "document"),
                                    "with deprecated fields">>)>>
                   \o RenderDeprecated(invalidDocuments)
              ELSE <<>>
      IN [lines |-> errorLines \o deprecatedLines,
          threw |-> errorsCount > 0 \/ (deprecated > 0 /\ deprecatedOption)]

\* Results of validateDocuments in the pipeline's runs.
InvalidDocumentSets ==
  {<<>>, <<InvalidDocument("a.graphql", 1, 0)>>, <<InvalidDocument("a.graphql", 0, 1)>>}

\* -------------------------------------------------------- similar command
\* Values of the `write` option; NotAString is a value that is no string.
NotAString == "<number>"
WritePaths == {"out.json", "OUT.JSON", "out.txt", "out", "in<valid>.json", NotAString}

\* Variant of isValidPath: every string passes.
isValidPathAlways(write) == TRUE

\* is-valid-path
isValidPath(write) == write # "in<valid>.json"

\* extname(absPath).replace('.', '').toLocaleLowerCase()
ExtOf(write) ==
  CASE write \in {"out.json", "OUT.JSON", "in<valid>.json"} -> "json"
    [] write = "out.txt" -> "txt"
    [] OTHER -> ""

\* The lines of the loop over similarMap (its keys, in order).
RECURSIVE SimilarLines(_)
SimilarLines(similarMap) ==
  IF similarMap = <<>> THEN <<>>
  ELSE <<Line("emit", <<>>), Line("emit", <<"type", Head(similarMap)>>),
         Line("emit", <<"best match of", Head(similarMap)>>)>>
       \o SimilarLines(Tail(similarMap))

\* runSimilar on the result of findSimilar: the lines it hands to the renderer,
\* the error it throws (NoError if it returns) and the files it writes.
runSimilar(similarMap, write) ==
  LET shouldWrite == write # None IN
  IF Len(similarMap) = 0
    THEN [lines |-> <<Line("emit", MsgNoSimilar)>>, error |-> NoError, written |-> <<>>]
    ELSE
      LET lines == SimilarLines(similarMap) IN
      IF shouldWrite
        THEN IF write = NotAString \/ ~isValidPath(write)
          THEN [lines |-> lines, error |-> <<"--write is not valid file path", write>>,
                written |-> <<>>]
          ELSE IF ExtOf(write) = "json"
            THEN [lines |-> lines \o <<Line("success", <<"Available at", write>>),
                                       Line("emit", <<>>)>>,
                  error |-> NoError, written |-> <<write>>]
            ELSE [lines |-> lines,
                  error |-> <<"Extension", ExtOf(write), "is not supported">>,
                  written |-> <<>>]
        ELSE [lines |-> lines \o <<Line("emit", <<>>)>>, error |-> NoError,
              written |-> <<>>]

\* Results of findSimilar in the pipeline's runs: the type names with matches.
SimilarMaps == {<<>>, <<"User">>}

\* ------------------------------------------------------------ fan-out stage
\* new ConsoleBufferRenderer()
NewBuffer == <<>>

\* Variant of Emit: the tasks share the renderer created last (a `renderer`
\* bound once for the whole loop instead of once per iteration).
EmitToLastCreated(rs, i, lines) == [rs EXCEPT ![Len(rs)] = @ \o lines]

\* renderer.emit / success / error of task i: appended to its own buffer.
Emit(rs, i, lines) == [rs EXCEPT ![i] = @ \o lines]

\* renderer.emit(`\n${chalk.bgBlue.white(' command ')}`, chalk.bold(taskName))
Banner(taskName) == Line("emit", <<" command ", taskName>>)

\* ctx.ok as the flush reads it (undefined before the fan-out).
CtxOk == okWrites # <<>> /\ Last(okWrites)

\* task 'Running commands': normalizes the project's commands and builds one
\* renderer and one task per command, in the enumeration order of the commands.
RunningCommands ==
  /\ pc = "Running commands"
  /\ \E raw \in RawCollections :
       LET config == transformProject(raw) IN
       /\ rawCommands' = raw
       /\ commands' = config
       /\ renderers' = [i \in 1..Len(config) |-> NewBuffer]
       /\ okWrites' = Append(okWrites, TRUE)
       /\ tpc' = [i \in 1..Len(config) |-> "created"]
       /\ calls' = [i \in 1..Len(config) |-> <<>>]
  /\ pc' = "fan-out"
  /\ UNCHANGED <<options, ctx, finished, outVars, thrown, log>>

\* Variant of TaskCatch: the error leaves the task and rejects listr.run().
TaskRethrow(i, lines, error) ==
  /\ renderers' = Emit(renderers, i, lines)
  /\ pc' = "catch"
  /\ thrown' = error
  /\ UNCHANGED <<okWrites, tpc, finished, calls>>

\* Variant of TaskCatch: the error line is written ahead of the lines the
\* collaborator emitted before it threw.
TaskCatchErrorFirst(i, lines, error) ==
  /\ okWrites' = Append(okWrites, FALSE)
  /\ renderers' = Emit(renderers, i, <<Line("error", error)>> \o lines)
  /\ tpc' = [tpc EXCEPT ![i] = "done"]
  /\ finished' = Append(finished, i)
  /\ UNCHANGED <<pc, thrown, calls>>

\* catch (error) { ctx.ok = false; renderer.error(error.message || error) }
\* after the lines the task's collaborator has emitted; the task then settles.
TaskCatch(i, lines, error) ==
  /\ okWrites' = Append(okWrites, FALSE)
  /\ renderers' = Emit(renderers, i, lines \o <<Line("error", error)>>)
  /\ tpc' = [tpc EXCEPT ![i] = "done"]
  /\ finished' = Append(finished, i)
  /\ UNCHANGED <<pc, thrown, calls>>

\* Variant of TaskReturn: a task that succeeds sets ctx.ok back to true.
TaskReturnResetsOk(i, lines) ==
  /\ renderers' = Emit(renderers, i, lines)
  /\ okWrites' = Append(okWrites, TRUE)
  /\ tpc' = [tpc EXCEPT ![i] = "done"]
  /\ finished' = Append(finished, i)
  /\ UNCHANGED <<pc, thrown, calls>>

\* Variant of TaskReturn: the task's promise is never resolved.
TaskReturnUnsettled(i, lines) ==
  /\ renderers' = Emit(renderers, i, lines)
  /\ tpc' = [tpc EXCEPT ![i] = "unsettled"]
  /\ UNCHANGED <<pc, thrown, calls, okWrites, finished>>

\* return await run...(): the task settles without an error.
TaskReturn(i, lines) ==
  /\ renderers' = Emit(renderers, i, lines)
  /\ tpc' = [tpc EXCEPT ![i] = "done"]
  /\ finished' = Append(finished, i)
  /\ UNCHANGED <<pc, thrown, calls, okWrites>>

\* await op(arg): the task invokes a collaborator and is suspended on it.
TaskAwait(i, lines, op, arg) ==
  /\ renderers' = Emit(renderers, i, lines)
  /\ tpc' = [tpc EXCEPT ![i] = op]
  /\ calls' = [calls EXCEPT ![i] = Append(@, [op |-> op, arg |-> arg])]
  /\ UNCHANGED <<pc, thrown, okWrites, finished>>

\* Variant of DocumentsMissing: the command's own pointer is taken for granted.
DocumentsNeverMissing(c, command) == FALSE

\* !ctx.documents && !command.documents
DocumentsMissing(c, command) == c.documents = None /\ command.documents = None

\* Variant of DispatchWithDocuments: the command's own pointer, when it has
\* one, is loaded even if the context holds documents.
DispatchPreferringOwnDocuments(i, command, banner, runner) ==
  IF DocumentsMissing(ctx, command)
    THEN TaskCatch(i, banner, ErrDocumentsMissing)
    ELSE IF command.documents # None
      THEN TaskAwait(i, banner, "loadDocuments", command.documents)
      ELSE TaskAwait(i, banner, runner, ctx.documents)

\* The coverage and the validate branch up to their first await: the missing
\* documents check, then ctx.documents || (await loadDocuments(command.documents)).
DispatchWithDocuments(i, command, banner, runner) ==
  IF DocumentsMissing(ctx, command)
    THEN TaskCatch(i, banner, ErrDocumentsMissing)
    ELSE IF ctx.documents # None
      THEN TaskAwait(i, banner, runner, ctx.documents)
      ELSE TaskAwait(i, banner, "loadDocuments", command.documents)

\* Variant of Dispatch: a command of no known kind is skipped without an error.
DispatchSkippingUnknown(i, command, banner) ==
  IF isDiffCommand(command)
    THEN TaskAwait(i, banner, "loadSchema", command.schema)
    ELSE IF isCoverageCommand(command)
      THEN DispatchWithDocuments(i, command, banner, "runCoverage")
      ELSE IF isValidateCommand(command)
        THEN DispatchWithDocuments(i, command, banner, "runValidate")
        ELSE IF isSimilarCommand(command)
          THEN TaskAwait(i, banner, "runSimilar", "schema")
          ELSE TaskReturn(i, banner)

\* The dispatch chain of a command task, from its start to its first await.
Dispatch(i, command, banner) ==
  IF isDiffCommand(command)
    THEN TaskAwait(i, banner, "loadSchema", command.schema)
    ELSE IF isCoverageCommand(command)
      THEN DispatchWithDocuments(i, command, banner, "runCoverage")
      ELSE IF isValidateCommand(command)
        THEN DispatchWithDocuments(i, command, banner, "runValidate")
        ELSE IF isSimilarCommand(command)
          THEN TaskAwait(i, banner, "runSimilar", "schema")
          ELSE TaskCatch(i, banner, ErrNotSupported(command.command))

\* A command task starts: the banner, then the dispatch.
TaskStart(i) ==
  /\ pc = "fan-out"
  /\ tpc[i] = "created"
  /\ Dispatch(i, commands[i].body, <<Banner(commands[i].label)>>)
  /\ UNCHANGED <<options, ctx, rawCommands, commands, outVars, log>>

\* await ctx.project.loadSchema(command.schema) returns or throws.
LoadSchemaReturns(i) ==
  /\ pc = "fan-out"
  /\ tpc[i] = "loadSchema"
  /\ \/ TaskAwait(i, <<>>, "runDiff", "oldSchema")
     \/ TaskCatch(i, <<>>, ErrSchema)
  /\ UNCHANGED <<options, ctx, rawCommands, commands, outVars, log>>

\* Variant of LoadDocumentsReturns: the loaded documents always go to runCoverage.
LoadDocumentsReturnsToCoverage(i) ==
  /\ pc = "fan-out"
  /\ tpc[i] = "loadDocuments"
  /\ \/ TaskAwait(i, <<>>, "runCoverage", "commandDocuments")
     \/ TaskCatch(i, <<>>, ErrDocuments)
  /\ UNCHANGED <<options, ctx, rawCommands, commands, outVars, log>>

\* await ctx.project.loadDocuments(command.documents) returns or throws.
LoadDocumentsReturns(i) ==
  /\ pc = "fan-out"
  /\ tpc[i] = "loadDocuments"
  /\ \/ TaskAwait(i, <<>>,
                  IF isCoverageCommand(commands[i].body) THEN "runCoverage" ELSE "runValidate",
                  "commandDocuments")
     \/ TaskCatch(i, <<>>, ErrDocuments)
  /\ UNCHANGED <<options, ctx, rawCommands, commands, outVars, log>>

\* The report an external command (runDiff, runCoverage) writes to its renderer.
Report(op) == <<Line("emit", <<"report of", op>>)>>

\* await runDiff(...) returns or throws.
RunDiffReturns(i) ==
  /\ pc = "fan-out"
  /\ tpc[i] = "runDiff"
  /\ \/ TaskReturn(i, Report("runDiff"))
     \/ TaskCatch(i, Report("runDiff"), ErrDiff)
  /\ UNCHANGED <<options, ctx, rawCommands, commands, outVars, log>>

\* await runCoverage(...) returns or throws.
RunCoverageReturns(i) ==
  /\ pc = "fan-out"
  /\ tpc[i] = "runCoverage"
  /\ \/ TaskReturn(i, Report("runCoverage"))
     \/ TaskCatch(i, Report("runCoverage"), ErrCoverage)
  /\ UNCHANGED <<options, ctx, rawCommands, commands, outVars, log>>

\* await runValidate({..., options: {deprecated: pick(command.deprecated, false), ...}})
RunValidateReturns(i) ==
  /\ pc = "fan-out"
  /\ tpc[i] = "runValidate"
  /\ \E invalidDocuments \in InvalidDocumentSets :
       LET r == runValidate(invalidDocuments, pick(commands[i].body.deprecated, FALSE)) IN
       IF r.threw
         THEN TaskCatch(i, r.lines, ErrInvalidDocuments)
         ELSE TaskReturn(i, r.lines)
  /\ UNCHANGED <<options, ctx, rawCommands, commands, outVars, log>>

\* await runSimilar({..., write: command.write}); findSimilar itself may throw.
RunSimilarReturns(i) ==
  /\ pc = "fan-out"
  /\ tpc[i] = "runSimilar"
  /\ \/ \E similarMap \in SimilarMaps :
          LET r == runSimilar(similarMap, commands[i].body.write) IN
          /\ files' = files \o r.written
          /\ IF r.error # NoError
               THEN TaskCatch(i, r.lines, r.error)
               ELSE TaskReturn(i, r.lines)
     \/ /\ TaskCatch(i, <<>>, ErrSimilar)
        /\ UNCHANGED files
  /\ UNCHANGED <<options, ctx, rawCommands, commands, stdout, topOut, exits, log>>

\* One step of command task i.
TaskStep(i) ==
  \/ TaskStart(i)
  \/ LoadSchemaReturns(i)
  \/ LoadDocumentsReturns(i)
  \/ RunDiffReturns(i)
  \/ RunCoverageReturns(i)
  \/ RunValidateReturns(i)
  \/ RunSimilarReturns(i)

\* Variant of Settled: the list settles with its first settled task.
SettledByAny(positions) == \E i \in 1..Len(positions) : positions[i] = "done"

\* Every task of the concurrent Listr has settled.
Settled(positions) == \A i \in 1..Len(positions) : positions[i] = "done"

\* The concurrent Listr settles: 'Running commands' is done and listr.run()
\* resolves with the context.
FanOutSettles ==
  /\ pc = "fan-out"
  /\ Settled(tpc)
  /\ StageDone("Running commands", "flush")
  /\ UNCHANGED <<options, ctx, taskVars, outVars>>

\* ------------------------------------------------------- flush and verdict
\* Variant of FlushOrder: the buffers are printed as their tasks settled.
FlushOrderByCompletion(n) == finished

\* renderers.forEach: the order in which the buffers are printed.
FlushOrder(n) == [k \in 1..n |-> k]

\* renderers.forEach(r => r.print()), then if (!ok) throw the summary.
Flush ==
  /\ pc = "flush"
  /\ LET order == FlushOrder(Len(renderers)) IN
     stdout' = stdout \o [k \in 1..Len(order) |->
                            [buffer |-> order[k], lines |-> renderers[order[k]]]]
  /\ IF ~CtxOk
       THEN /\ pc' = "catch"
            /\ thrown' = ErrSummary
       ELSE /\ pc' = "returned"
            /\ UNCHANGED thrown
  /\ UNCHANGED <<options, ctx, taskVars, topOut, files, exits, log>>

\* Variant of Catch: the error is reported and the process is left running.
CatchWithoutExit ==
  /\ pc = "catch"
  /\ topOut' = topOut \o <<Line("error", thrown), Line("emit", <<"\n">>)>>
  /\ pc' = "returned"
  /\ UNCHANGED <<options, ctx, taskVars, stdout, files, thrown, exits, log>>

\* catch (error) { commandRenderer.error(...); commandRenderer.emit('\n'); process.exit(1) }
Catch ==
  /\ pc = "catch"
  /\ topOut' = topOut \o <<Line("error", thrown), Line("emit", <<"\n">>)>>
  /\ exits' = Append(exits, 1)
  /\ pc' = "exited"
  /\ UNCHANGED <<options, ctx, taskVars, stdout, files, thrown, log>>

\* ------------------------------------------------------------ specification
Next ==
  \/ LoadingConfig
  \/ PickingProject
  \/ CheckingForExtension
  \/ LoadingSchema
  \/ LoadingDocuments
  \/ RunningCommands
  \/ \E i \in 1..Len(tpc) : TaskStep(i)
  \/ FanOutSettles
  \/ Flush
  \/ Catch

Spec == Init /\ [][Next]_vars

\* ------------------------------------------------- scheduling and fairness
\* The return (or failure) of the collaborator call task i is suspended on.
CollaboratorReturns(i) ==
  /\ i \in DOMAIN tpc
  /\ \/ LoadSchemaReturns(i)
     \/ LoadDocumentsReturns(i)
     \/ RunDiffReturns(i)
     \/ RunCoverageReturns(i)
     \/ RunValidateReturns(i)
     \/ RunSimilarReturns(i)

\* The event loop runs whatever is ready: a stage or a task that is not
\* waiting for an external call takes its next step.
SchedulerFairness ==
  /\ WF_vars(PickingProject)
  /\ WF_vars(CheckingForExtension)
  /\ WF_vars(RunningCommands)
  /\ \A i \in 1..MaxCmds : WF_vars(i \in DOMAIN tpc /\ TaskStart(i))
  /\ WF_vars(FanOutSettles)
  /\ WF_vars(Flush)
  /\ WF_vars(Catch)

\* The run under the event loop's scheduling; the external calls (loading
\* the config, the schema and the documents, and the calls of the tasks) may
\* take forever.
SpecFair == Spec /\ SchedulerFairness

\* --------------------------------------- specification of transformProject
\* Labels and bodies of the configurations transformProject is applied to:
\* command names and other labels, each with every tag and with or without a
\* schema pointer.
TransformLabels == {"diff", "coverage", "myDiff"}

TransformBodies == {Body(c, sch, None, None, None) : c \in Tags, sch \in {None, SchemaPtr}}

TransformEntries == {Entry(l, b) : l \in TransformLabels, b \in TransformBodies}

InitTransform ==
  /\ options = [project |-> None]
  /\ pc = "transformProject"
  /\ ctx = [config |-> None, project |-> NoProject, schema |-> None, documents |-> None]
  /\ rawCommands \in CollectionsOver(TransformEntries, MaxCmds)
  /\ commands = <<>>
  /\ renderers = <<>>
  /\ okWrites = <<>>
  /\ tpc = <<>>
  /\ calls = <<>>
  /\ finished = <<>>
  /\ stdout = <<>>
  /\ topOut = <<>>
  /\ files = <<>>
  /\ thrown = NoError
  /\ exits = <<>>
  /\ log = <<>>

\* transformProject applied to the project's raw commands.
ApplyTransform ==
  /\ pc = "transformProject"
  /\ commands' = transformProject(rawCommands)
  /\ pc' = "transformed"
  /\ UNCHANGED <<options, ctx, rawCommands, renderers, okWrites, tpc, calls, finished,
                 outVars, thrown, log>>

NextTransform == ApplyTransform

SpecTransform == InitTransform /\ [][NextTransform]_vars

\* ------------------------------------------- specification of runValidate
\* Results of validateDocuments runValidate is applied to: up to MaxDocs
\* invalid documents, each with up to MaxFindings errors and deprecated usages.
ValidateSources == <<"a.graphql", "b.graphql", "c.graphql">>

ValidateResults ==
  UNION {[1..n -> {[errors |-> e, deprecated |-> d] : e, d \in 0..MaxFindings}]
           : n \in 0..MaxDocs}

\* The k-th invalid document of a result.
AsInvalidDocuments(result) ==
  [k \in 1..Len(result) |->
     InvalidDocument(ValidateSources[((k - 1) % Len(ValidateSources)) + 1],
                     result[k].errors, result[k].deprecated)]

InitValidate ==
  /\ options \in {[invalidDocuments |-> AsInvalidDocuments(r), deprecated |-> d] :
                    r \in ValidateResults, d \in BOOLEAN}
  /\ pc = "runValidate"
  /\ ctx = [config |-> None, project |-> NoProject, schema |-> None, documents |-> None]
  /\ rawCommands = <<>>
  /\ commands = <<>>
  /\ renderers = <<NewBuffer>>
  /\ okWrites = <<>>
  /\ tpc = <<>>
  /\ calls = <<>>
  /\ finished = <<>>
  /\ stdout = <<>>
  /\ topOut = <<>>
  /\ files = <<>>
  /\ thrown = NoError
  /\ exits = <<>>
  /\ log = <<>>

\* One call of runValidate with its own renderer: the lines go to the
\* renderer, and the call returns or throws.
ApplyValidate ==
  /\ pc = "runValidate"
  /\ LET r == runValidate(options.invalidDocuments, options.deprecated) IN
     /\ renderers' = Emit(renderers, 1, r.lines)
     /\ thrown' = IF r.threw THEN ErrInvalidDocuments ELSE NoError
     /\ pc' = IF r.threw THEN "runValidate threw" ELSE "runValidate returned"
  /\ UNCHANGED <<options, ctx, rawCommands, commands, okWrites, tpc, calls, finished,
                 outVars, log>>

NextValidate == ApplyValidate

SpecValidate == InitValidate /\ [][NextValidate]_vars

\* -------------------------------------------- specification of runSimilar
\* Results of findSimilar runSimilar is applied to: the type names with
\* matches, as the keys of the map in their order, up to MaxTypes of them.
SimilarTypeNames == {"User", "Admin", "Post"}

SimilarResults ==
  {m \in UNION {[1..n -> SimilarTypeNames] : n \in 0..MaxTypes} :
     \A j, k \in 1..Len(m) : j # k => m[j] # m[k]}

InitSimilar ==
  /\ options \in {[similarMap |-> m, write |-> w] :
                    m \in SimilarResults, w \in WritePaths \cup {None}}
  /\ pc = "runSimilar"
  /\ ctx = [config |-> None, project |-> NoProject, schema |-> None, documents |-> None]
  /\ rawCommands = <<>>
  /\ commands = <<>>
  /\ renderers = <<NewBuffer>>
  /\ okWrites = <<>>
  /\ tpc = <<>>
  /\ calls = <<>>
  /\ finished = <<>>
  /\ stdout = <<>>
  /\ topOut = <<>>
  /\ files = <<>>
  /\ thrown = NoError
  /\ exits = <<>>
  /\ log = <<>>

\* One call of runSimilar with its own renderer: the lines go to the
\* renderer, the file (if any) to the file system, and the call returns or
\* throws.
ApplySimilar ==
  /\ pc = "runSimilar"
  /\ LET r == runSimilar(options.similarMap, options.write) IN
     /\ renderers' = Emit(renderers, 1, r.lines)
     /\ files' = files \o r.written
     /\ thrown' = r.error
     /\ pc' = IF r.error # NoError THEN "runSimilar threw" ELSE "runSimilar returned"
  /\ UNCHANGED <<options, ctx, rawCommands, commands, okWrites, tpc, calls, finished,
                 stdout, topOut, exits, log>>

NextSimilar == ApplySimilar

SpecSimilar == InitSimilar /\ [][NextSimilar]_vars

\* ------------------------------ specification of the validate options
\* JavaScript values of the option fields: booleans and numbers are written
\* as their literals, undefined is None.
JsFalsy == {None, "false", "0"}

\* a || b
JsOr(a, b) == IF a \in JsFalsy THEN b ELSE a

\* !a
JsNot(a) == IF a \in JsFalsy THEN "true" ELSE "false"

JsBooleans == {"true", "false"}
DepthValues == {"1", "3"}

\* The validate commands of a configuration (interface ValidateCommand).
ValidateCommands ==
  {[command |-> "validate", documents |-> d, deprecated |-> dep,
    noStrictFragments |-> nsf, maxDepth |-> md, apollo |-> ap] :
     d \in {None, DocPtr}, dep \in JsBooleans \cup {None},
     nsf \in JsBooleans \cup {None}, md \in DepthValues \cup {None},
     ap \in JsBooleans \cup {None}}

\* The options object the validate branch of the dispatch builds for
\* runValidate; the fields it does not set are undefined.
DispatchValidateOptions(command) ==
  [deprecated |-> pick(command.deprecated, "false"),
   noStrictFragments |-> pick(command.noStrictFragments, "false"),
   apollo |-> pick(command.apollo, "false"),
   keepClientFields |-> None,
   maxDepth |-> None]

\* The options object runValidate builds for validateDocuments.
ValidateDocumentsOptions(opts) ==
  [strictFragments |-> JsNot(opts.noStrictFragments),
   maxDepth |-> JsOr(opts.maxDepth, None),
   apollo |-> JsOr(opts.apollo, "false"),
   keepClientFields |-> JsOr(opts.keepClientFields, "false")]

InitValidateOptions ==
  /\ options = [project |-> None]
  /\ pc = "validate dispatch"
  /\ ctx = [config |-> None, project |-> NoProject, schema |-> None,
            documents |-> "projectDocuments"]
  /\ rawCommands = <<>>
  /\ commands \in {<<[label |-> "validate", body |-> c]>> : c \in ValidateCommands}
  /\ renderers = <<NewBuffer>>
  /\ okWrites = <<TRUE>>
  /\ tpc = <<"created">>
  /\ calls = <<<<>>>>
  /\ finished = <<>>
  /\ stdout = <<>>
  /\ topOut = <<>>
  /\ files = <<>>
  /\ thrown = NoError
  /\ exits = <<>>
  /\ log = <<>>

\* The validate branch of the dispatch calls runValidate with the options it
\* built from the command.
DispatchValidate ==
  /\ pc = "validate dispatch"
  /\ calls' = [calls EXCEPT ![1] = Append(@, [op |-> "runValidate",
                 arg |-> DispatchValidateOptions(commands[1].body)])]
  /\ tpc' = [tpc EXCEPT ![1] = "runValidate"]
  /\ pc' = "runValidate called"
  /\ UNCHANGED <<options, ctx, rawCommands, commands, renderers, okWrites, finished,
                 outVars, thrown, log>>

\* runValidate calls validateDocuments with the options it derives from its own.
CallValidateDocuments ==
  /\ pc = "runValidate called"
  /\ calls' = [calls EXCEPT ![1] = Append(@, [op |-> "validateDocuments",
                 arg |-> ValidateDocumentsOptions(Last(calls[1]).arg)])]
  /\ pc' = "validateDocuments called"
  /\ UNCHANGED <<options, ctx, rawCommands, commands, renderers, okWrites, tpc, finished,
                 outVars, thrown, log>>

NextValidateOptions == DispatchValidate \/ CallValidateDocuments

SpecValidateOptions == InitValidateOptions /\ [][NextValidateOptions]_vars

\* ------------------------------------------------------------------ claims
\* Vocabulary of the claims.
NTasks == Len(commands)

FanOutBegun == okWrites # <<>>

AllTasksDone == \A i \in 1..Len(tpc) : tpc[i] = "done"

TaskFailed(i) ==
  /\ tpc[i] = "done"
  /\ renderers[i] # <<>>
  /\ Last(renderers[i]).kind = "error"

TaskSucceeded(i) == tpc[i] = "done" /\ ~TaskFailed(i)

SetupFailed == log # <<>> /\ Last(log).result = "failed"

\* listr.run() has resolved and the buffers have been printed.
Flushed == FanOutBegun /\ pc \in {"catch", "exited", "returned"}

SetupTitles ==
  <<"Loading config", "Picking project", "Checking for extension", "Loading schema",
    "Loading documents">>

\* The error each setup stage raises when it fails.
StageError(title) ==
  CASE title = "Loading config" -> ErrConfig
    [] title = "Picking project" -> ErrProject
    [] title = "Checking for extension" -> ErrNoExtension
    [] title = "Loading schema" -> ErrSchema
    [] title = "Loading documents" -> ErrDocuments
    [] OTHER -> NoError

ErrorTexts(buffer) == {buffer[k].text : k \in {n \in 1..Len(buffer) : buffer[n].kind = "error"}}

\* C1: a collection of N commands yields exactly N buffers, buffer i is the one
\* of the i-th command in insertion order (it opens with that command's
\* banner), and whatever the order in which the tasks settled, the buffers are
\* printed in insertion order.
C1_BuffersInInsertionOrder ==
  /\ FanOutBegun =>
       /\ Len(renderers) = Len(rawCommands)
       /\ Len(tpc) = Len(rawCommands)
       /\ \A i \in 1..Len(rawCommands) :
            tpc[i] # "created" =>
              /\ renderers[i] # <<>>
              /\ renderers[i][1] = Banner(rawCommands[i].label)
  /\ Flushed =>
       /\ Len(stdout) = Len(rawCommands)
       /\ \A k \in 1..Len(rawCommands) :
            /\ stdout[k].buffer = k
            /\ stdout[k].lines = renderers[k]
            /\ stdout[k].lines[1] = Banner(rawCommands[k].label)

\* C1 witness: two tasks settled in the reverse of their creation order and
\* their buffers have been printed.
C1_Witness ==
  /\ Flushed
  /\ finished = <<2, 1>>
  /\ Len(stdout) = 2

\* C2: an error inside a command task never leaves the task: it aborts neither
\* the pipeline (the only error run() ever sees after the fan-out began is the
\* summary) nor a sibling (every unsettled task can still take its next step),
\* the fan-out settles only with all tasks settled, and all N buffers are
\* printed whether or not tasks failed.
C2_FailureStaysInTask ==
  FanOutBegun =>
    /\ pc \in {"fan-out", "flush", "catch", "returned", "exited"}
    /\ thrown \in {NoError, ErrSummary}
    /\ pc = "fan-out" => \A i \in 1..NTasks : tpc[i] # "done" => ENABLED TaskStep(i)
    /\ pc = "fan-out" /\ AllTasksDone => ENABLED FanOutSettles
    /\ pc # "fan-out" => AllTasksDone
    /\ Flushed =>
         /\ Len(stdout) = NTasks
         /\ \A k \in 1..NTasks : stdout[k].lines = renderers[k]

\* C2 witness: the first task to settle failed, the other one completed after
\* it without an error, and both buffers were printed.
C2_Witness ==
  /\ pc = "exited"
  /\ Len(finished) = 2
  /\ TaskFailed(finished[1])
  /\ TaskSucceeded(finished[2])
  /\ Len(stdout) = 2

\* C3: the setup stages run in the order config, project, extension, schema,
\* documents, one after the other; after a stage failed nothing else runs: no
\* command task and no buffer exists, nothing is printed, and the stage's own
\* error is what the top-level renderer receives.  A project without the
\* 'inspector' extension never gets a command task.
C3_SetupFailFast ==
  /\ \A k \in 1..Len(log) :
       /\ k <= Len(SetupTitles) => log[k].title = SetupTitles[k]
       /\ k > Len(SetupTitles) => log[k].title = "Running commands" /\ k = Len(SetupTitles) + 1
       /\ k < Len(log) => log[k].result # "failed"
  /\ pc \in {SetupTitles[k] : k \in 1..Len(SetupTitles)} => pc = SetupTitles[Len(log) + 1]
  /\ FanOutBegun => Len(log) >= Len(SetupTitles) /\ ~SetupFailed
  /\ SetupFailed =>
       /\ pc \in {"catch", "exited"}
       /\ renderers = <<>> /\ tpc = <<>> /\ commands = <<>> /\ okWrites = <<>>
       /\ stdout = <<>>
       /\ thrown = StageError(Last(log).title)
       /\ pc = "exited" => topOut = <<Line("error", StageError(Last(log).title)),
                                       Line("emit", <<"\n">>)>>
  /\ (ctx.project # NoProject /\ ~ctx.project.hasExtension) =>
       /\ tpc = <<>> /\ renderers = <<>> /\ stdout = <<>>
       /\ pc \notin {"Loading schema", "Loading documents", "Running commands"}

\* C3 witness: the extension check failed and the run has ended.
C3_Witness ==
  /\ pc = "exited"
  /\ Last(log) = [title |-> "Checking for extension", result |-> "failed"]
  /\ ~ctx.project.hasExtension

\* C4: ctx.ok is true when the fan-out begins, is only ever changed from true
\* to false (no write after the first one is a write of true), and is false
\* exactly when a command task has failed; in particular when the fan-out
\* settles.
C4_OkFlagOneWay ==
  FanOutBegun =>
    /\ okWrites[1] = TRUE
    /\ \A k \in 2..Len(okWrites) : okWrites[k] = FALSE
    /\ (\A i \in 1..NTasks : tpc[i] = "created") => CtxOk
    /\ ~CtxOk <=> \E i \in 1..NTasks : TaskFailed(i)
    /\ Len(okWrites) = 1 + Cardinality({i \in 1..NTasks : TaskFailed(i)})

\* C4 witness: a task failed, another one succeeded after it, the fan-out has
\* settled and the flag is false.
C4_Witness ==
  /\ pc = "flush"
  /\ Len(finished) = 2
  /\ TaskFailed(finished[1])
  /\ TaskSucceeded(finished[2])
  /\ ~CtxOk

\* C5: nothing is printed before every command task has settled; the summary
\* is raised only with the flag false and after all N buffers were printed,
\* and it is raised whenever the flag is false; the top-level renderer then
\* gets the summary once and no error text of a task.
C5_FlushThenOneSummary ==
  /\ stdout # <<>> => AllTasksDone /\ pc \notin {"fan-out", "flush"}
  /\ thrown = ErrSummary => ~CtxOk /\ AllTasksDone /\ Len(stdout) = Len(renderers)
  /\ Flushed /\ ~CtxOk => thrown = ErrSummary
  /\ Flushed /\ CtxOk => pc = "returned" /\ thrown = NoError /\ topOut = <<>>
  /\ pc # "exited" => topOut = <<>>
  /\ pc = "exited" /\ FanOutBegun =>
       /\ topOut = <<Line("error", ErrSummary), Line("emit", <<"\n">>)>>
       /\ \A i \in 1..Len(renderers) : ErrSummary \notin ErrorTexts(renderers[i])

\* C5 witness: two buffers printed, one of them with an error, and the summary
\* delivered.
C5_Witness ==
  /\ pc = "exited"
  /\ Len(stdout) = 2
  /\ \E i \in 1..2 : TaskFailed(i)
  /\ topOut # <<>>

C7_PicksNamedProject ==
  ctx.project # NoProject =>
    ctx.project.name = (IF options.project # None THEN options.project ELSE DefaultProject)

\* C8 (the claim as stated): under a command-name label the normalized entry
\* is the body with the label as its kind tag, for every body.
C8_ShorthandTagIsLabel ==
  pc = "transformed" =>
    /\ Len(commands) = Len(rawCommands)
    /\ \A i \in 1..Len(rawCommands) :
         /\ commands[i].label = rawCommands[i].label
         /\ isCommandName(rawCommands[i].label) =>
              commands[i].body = [rawCommands[i].body EXCEPT !.command = rawCommands[i].label]

\* C8 (amended): labels and order are kept; under a command-name label a body
\* without a kind tag of its own gets the label as its tag and keeps its other
\* fields, which is what the explicit form with that tag yields under another
\* label; a body that carries a tag of its own is kept unchanged.
C8_ShorthandNormalization ==
  pc = "transformed" =>
    /\ Len(commands) = Len(rawCommands)
    /\ \A i \in 1..Len(rawCommands) :
         LET l == rawCommands[i].label
             b == rawCommands[i].body
         IN /\ commands[i].label = l
            /\ (isCommandName(l) /\ b.command = None) =>
                 commands[i].body = [b EXCEPT !.command = l]
            /\ (isCommandName(l) /\ b.command # None) => commands[i].body = b
            /\ \A j \in 1..Len(rawCommands) :
                 ( /\ isCommandName(l)
                   /\ b.command = None
                   /\ ~isCommandName(rawCommands[j].label)
                   /\ rawCommands[j].body = [b EXCEPT !.command = l] )
                 => commands[j].body = commands[i].body

\* C8 witness: {diff: {schema}} beside {myDiff: {command: diff, schema}}, normalized.
C8_Witness ==
  /\ pc = "transformed"
  /\ \E i, j \in 1..Len(rawCommands) :
       /\ rawCommands[i] = Entry("diff", Body(None, SchemaPtr, None, None, None))
       /\ rawCommands[j] = Entry("myDiff", Body("diff", SchemaPtr, None, None, None))
       /\ commands[i].body = commands[j].body

\* C9: a command whose kind tag, as normalized, is none of the four names (or
\* is absent) was passed through unchanged and has a task and a buffer of its
\* own; the task invokes no collaborator, is never skipped, and ends with the
\* banner and the error 'Command <kind> not supported' for exactly that kind
\* in its own buffer and with ctx.ok false; the run goes on (no error but the
\* summary reaches run(), siblings can still step and do not get the error).
C9_UnsupportedCommand ==
  FanOutBegun =>
    \A i \in 1..NTasks :
      LET l == commands[i].label
          kind == commands[i].body.command
      IN kind \notin supportedCommands =>
           /\ l = rawCommands[i].label
           /\ commands[i].body = rawCommands[i].body
           /\ i \in DOMAIN tpc /\ i \in DOMAIN renderers
           /\ calls[i] = <<>>
           /\ tpc[i] \in {"created", "done"}
           /\ (pc = "fan-out" /\ tpc[i] = "created") => ENABLED TaskStart(i)
           /\ pc # "fan-out" => tpc[i] = "done"
           /\ tpc[i] = "done" =>
                /\ renderers[i] = <<Banner(l), Line("error", ErrNotSupported(kind))>>
                /\ ~CtxOk
           /\ thrown \in {NoError, ErrSummary}
           /\ pc = "fan-out" =>
                \A j \in 1..NTasks : (j # i /\ tpc[j] # "done") => ENABLED TaskStep(j)
           /\ \A j \in 1..NTasks :
                (j # i /\ commands[j].body.command # kind) =>
                  ErrNotSupported(kind) \notin ErrorTexts(renderers[j])

\* C9 witness: a 'bogus' command has failed as unsupported, its sibling has
\* completed without an error, and both buffers were printed.
C9_Witness ==
  /\ pc = "exited"
  /\ NTasks = 2
  /\ \E i, j \in 1..2 :
       /\ commands[i].body.command = "bogus"
       /\ renderers[i] = <<Banner(commands[i].label), Line("error", ErrNotSupported("bogus"))>>
       /\ TaskSucceeded(j)
  /\ Len(stdout) = 2

\* A coverage or validate command with neither project documents nor a
\* documents pointer of its own.
LacksDocuments(i) ==
  /\ commands[i].body.command \in {"coverage", "validate"}
  /\ ctx.documents = None
  /\ commands[i].body.documents = None

\* C10: a coverage or validate task that lacks documents loads nothing and
\* runs nothing; it ends with 'Documents are missing' as the only line after
\* the banner of its own buffer, the error appears in no other task's buffer,
\* and the siblings can still step and are all settled when the fan-out is.
C10_DocumentsMissing ==
  FanOutBegun =>
    \A i \in 1..NTasks :
      LacksDocuments(i) =>
        /\ calls[i] = <<>>
        /\ tpc[i] \in {"created", "done"}
        /\ tpc[i] = "done" =>
             /\ renderers[i] = <<Banner(commands[i].label), Line("error", ErrDocumentsMissing)>>
             /\ ~CtxOk
        /\ \A j \in 1..NTasks :
             (j # i /\ ~LacksDocuments(j)) =>
               /\ ErrDocumentsMissing \notin ErrorTexts(renderers[j])
               /\ (pc = "fan-out" /\ tpc[j] # "done") => ENABLED TaskStep(j)
               /\ pc # "fan-out" => tpc[j] = "done"

\* C10 witness: a validate task failed for missing documents and its sibling
\* completed without an error.
C10_Witness ==
  /\ Flushed
  /\ NTasks = 2
  /\ \E i, j \in 1..2 :
       /\ LacksDocuments(i)
       /\ commands[i].body.command = "validate"
       /\ TaskFailed(i)
       /\ TaskSucceeded(j)

\* Vocabulary of the claims about runValidate.
ValidateEnded == pc \in {"runValidate threw", "runValidate returned"}

SuccessLines(buffer) ==
  {k \in 1..Len(buffer) : buffer[k] = Line("success", MsgAllValid)}

\* C11: runValidate throws 'Some documents are invalid' exactly when some
\* document has errors, or some document uses deprecated fields and the
\* deprecated option is set; otherwise it returns normally.
C11_ThrowsIffInvalid ==
  ValidateEnded =>
    LET shouldThrow ==
          \/ \E k \in 1..Len(options.invalidDocuments) :
               options.invalidDocuments[k].errors > 0
          \/ /\ options.deprecated
             /\ \E k \in 1..Len(options.invalidDocuments) :
                  options.invalidDocuments[k].deprecated > 0
    IN /\ shouldThrow <=> (pc = "runValidate threw" /\ thrown = ErrInvalidDocuments)
       /\ ~shouldThrow <=> (pc = "runValidate returned" /\ thrown = NoError)

\* C11 witness: documents with deprecated usages only, the deprecated option
\* unset, and the call has returned.
C11_Witness ==
  /\ pc = "runValidate returned"
  /\ ~options.deprecated
  /\ Len(options.invalidDocuments) = 2
  /\ \A k \in 1..2 : /\ options.invalidDocuments[k].deprecated > 0
                     /\ options.invalidDocuments[k].errors = 0

\* C20: a call of runValidate emits the success line at most once; when it
\* emits it, it returns without throwing, and when it throws, it has emitted
\* no success line.
C20_SuccessExcludesThrow ==
  ValidateEnded =>
    /\ Cardinality(SuccessLines(renderers[1])) <= 1
    /\ SuccessLines(renderers[1]) # {} => pc = "runValidate returned" /\ thrown = NoError
    /\ pc = "runValidate threw" => SuccessLines(renderers[1]) = {}

\* C20 witness: the success line was emitted by the second branch (invalid
\* documents with deprecated usages only, option unset), followed by the
\* deprecation report, and the call returned.
C20_Witness ==
  /\ pc = "runValidate returned"
  /\ options.invalidDocuments # <<>>
  /\ Cardinality(SuccessLines(renderers[1])) = 1
  /\ Len(renderers[1]) > 1

\* Vocabulary of the claims about runSimilar.
SimilarEnded == pc \in {"runSimilar threw", "runSimilar returned"}

WriteInvalid == options.write = NotAString \/ options.write = "in<valid>.json"

WriteUnsupported ==
  /\ options.write \notin {None, NotAString, "in<valid>.json"}
  /\ options.write \notin {"out.json", "OUT.JSON"}

WriteRejected ==
  /\ pc = "runSimilar threw"
  /\ WriteInvalid => thrown = <<"--write is not valid file path", options.write>>
  /\ WriteUnsupported =>
       thrown = <<"Extension", IF options.write = "out.txt" THEN "txt" ELSE "",
                  "is not supported">>
  /\ files = <<>>

\* C12 (as stated): a call of runSimilar with an invalid write path or an
\* extension other than json fails with the matching error and writes no
\* file, for every similarity result, the empty one included; a file is
\* written only for a valid path with extension json.
C12_WriteRejectedForEveryResult ==
  SimilarEnded =>
    /\ (WriteInvalid \/ WriteUnsupported) => WriteRejected
    /\ files # <<>> => options.write \in {"out.json", "OUT.JSON"}

\* C12 (amended): the same for every non-empty similarity result; on an empty
\* result the call returns after 'No similar types found' without examining
\* the write path, with no error and no file; a file is written only for a
\* non-empty result and a valid path with extension json.
C12_WriteRejectedForNonEmptyResult ==
  SimilarEnded =>
    /\ (options.similarMap # <<>> /\ (WriteInvalid \/ WriteUnsupported)) => WriteRejected
    /\ options.similarMap = <<>> =>
         /\ pc = "runSimilar returned"
         /\ thrown = NoError
         /\ files = <<>>
         /\ renderers[1] = <<Line("emit", MsgNoSimilar)>>
    /\ files # <<>> =>
         /\ options.similarMap # <<>>
         /\ options.write \in {"out.json", "OUT.JSON"}
         /\ files = <<options.write>>

\* C12 witness: a non-empty result and an invalid path; the call threw and
\* left no file.
C12_Witness ==
  /\ pc = "runSimilar threw"
  /\ Len(options.similarMap) = 2
  /\ options.write = "in<valid>.json"
  /\ files = <<>>

\* Vocabulary of the claims about a task's buffer.
ErrorLines(buffer) == {k \in 1..Len(buffer) : buffer[k].kind = "error"}

BannerLines(buffer) ==
  {k \in 1..Len(buffer) : buffer[k].kind = "emit" /\ buffer[k].text # <<>>
                          /\ Head(buffer[k].text) = " command "}

FalseWrites == {k \in 1..Len(okWrites) : ~okWrites[k]}

\* C13: in every interleaving, a task that has not started has an empty
\* buffer and has invoked nothing; once started, its buffer opens with its own
\* banner (and holds no other banner); an error line occurs at most once, only
\* as the last entry of a settled task, and the tasks with an error line are
\* as many as the writes of false to the shared flag, so a task that failed
\* has exactly one error line, at the end, and a task that succeeded has none.
C13_BufferLayout ==
  FanOutBegun =>
    /\ \A i \in 1..NTasks :
         /\ tpc[i] = "created" => renderers[i] = <<>> /\ calls[i] = <<>>
         /\ (tpc[i] # "created" \/ calls[i] # <<>>) =>
              /\ renderers[i] # <<>>
              /\ renderers[i][1] = Banner(commands[i].label)
              /\ BannerLines(renderers[i]) = {1}
         /\ ErrorLines(renderers[i]) \subseteq {Len(renderers[i])}
         /\ ErrorLines(renderers[i]) # {} => tpc[i] = "done"
    /\ Cardinality({i \in 1..NTasks : ErrorLines(renderers[i]) # {}})
         = Cardinality(FalseWrites)

\* C13 witness: one task failed after its collaborator had reported (banner,
\* report, error line), another succeeded with banner and report only.
C13_Witness ==
  /\ NTasks = 2
  /\ AllTasksDone
  /\ \E i, j \in 1..2 :
       /\ Len(renderers[i]) >= 3
       /\ ErrorLines(renderers[i]) = {Len(renderers[i])}
       /\ Len(renderers[j]) >= 2
       /\ ErrorLines(renderers[j]) = {}
       /\ calls[i] # <<>> /\ calls[j] # <<>>

\* Vocabulary of the claims about the collaborators a task invokes.
Collaborators == {"runDiff", "runCoverage", "runValidate", "runSimilar"}

\* The collaborator operation of each kind tag.
CollaboratorOf(kind) ==
  CASE kind = "diff" -> "runDiff"
    [] kind = "coverage" -> "runCoverage"
    [] kind = "validate" -> "runValidate"
    [] kind = "similar" -> "runSimilar"
    [] OTHER -> "no collaborator"

\* The positions in a task's call log that invoke a collaborator operation.
CollaboratorCalls(log_i) == {k \in 1..Len(log_i) : log_i[k].op \in Collaborators}

CallsOf(log_i, op) == {k \in 1..Len(log_i) : log_i[k].op = op}

\* C14: a task invokes at most one collaborator operation, at most once, and
\* only the one of its kind tag; a task that succeeded has invoked it; a diff
\* task invokes runDiff only after loading the old schema from the command's
\* pointer, and when that load fails the task ends with the load's error in
\* its own buffer, runDiff is never invoked and the run goes on.
C14_OneMatchingCollaborator ==
  FanOutBegun =>
    \A i \in 1..NTasks :
      LET kind == commands[i].body.command
          invoked == CollaboratorCalls(calls[i])
      IN /\ Cardinality(invoked) <= 1
         /\ \A k \in invoked : /\ calls[i][k].op = CollaboratorOf(kind)
                               /\ k = Len(calls[i])
         /\ TaskSucceeded(i) => Cardinality(invoked) = 1
         /\ kind = "diff" =>
              /\ tpc[i] # "created" =>
                   calls[i][1] = [op |-> "loadSchema", arg |-> commands[i].body.schema]
              /\ Cardinality(CallsOf(calls[i], "loadSchema")) <= 1
              /\ invoked # {} => calls[i] = <<[op |-> "loadSchema", arg |-> SchemaPtr],
                                              [op |-> "runDiff", arg |-> "oldSchema"]>>
              /\ (tpc[i] = "done" /\ invoked = {}) =>
                   /\ renderers[i] = <<Banner(commands[i].label), Line("error", ErrSchema)>>
                   /\ ~CtxOk
                   /\ thrown \in {NoError, ErrSummary}
         /\ kind # "diff" => CallsOf(calls[i], "loadSchema") = {}

\* C14 witness: the old schema of a diff task failed to load, the task ended
\* without invoking runDiff, and its sibling went on to invoke its own
\* collaborator and succeeded.
C14_Witness ==
  /\ NTasks = 2
  /\ AllTasksDone
  /\ \E i, j \in 1..2 :
       /\ commands[i].body.command = "diff"
       /\ calls[i] = <<[op |-> "loadSchema", arg |-> SchemaPtr]>>
       /\ finished = <<i, j>>
       /\ commands[j].body.command = "validate"
       /\ CallsOf(calls[j], "runValidate") # {}
       /\ TaskSucceeded(j)

\* C15: a coverage or validate task hands the context's pre-loaded documents
\* to its collaborator whenever they are present, and then never loads the
\* command's own pointer; without pre-loaded documents it loads the command's
\* pointer first and hands over what that load returned; when that load
\* fails, the task ends with the load's error in its own buffer, its
\* collaborator is not invoked and the run goes on.
C15_DocumentsHandedOver ==
  FanOutBegun =>
    \A i \in 1..NTasks :
      LET command == commands[i].body
          runner == CollaboratorOf(command.command)
          loads == CallsOf(calls[i], "loadDocuments")
      IN /\ command.command \in {"coverage", "validate"} =>
              /\ ctx.documents # None =>
                   /\ loads = {}
                   /\ \A k \in CallsOf(calls[i], runner) : calls[i][k].arg = ctx.documents
                   /\ tpc[i] # "created" => calls[i] = <<[op |-> runner, arg |-> ctx.documents]>>
              /\ ctx.documents = None =>
                   /\ \A k \in CallsOf(calls[i], runner) :
                        /\ calls[i][k].arg = "commandDocuments"
                        /\ k = 2
                        /\ calls[i][1] = [op |-> "loadDocuments", arg |-> command.documents]
                        /\ command.documents # None
                   /\ (tpc[i] = "done" /\ loads # {} /\ CallsOf(calls[i], runner) = {}) =>
                        /\ renderers[i] = <<Banner(commands[i].label),
                                            Line("error", ErrDocuments)>>
                        /\ ~CtxOk
                        /\ thrown \in {NoError, ErrSummary}
         /\ command.command \notin {"coverage", "validate"} => loads = {}

\* C15 witness: the context holds pre-loaded documents, the command also has
\* a pointer of its own, and its collaborator was invoked with the context's
\* documents and has returned.
C15_Witness ==
  /\ FanOutBegun
  /\ ctx.documents # None
  /\ \E i \in 1..NTasks :
       /\ commands[i].body.command = "coverage"
       /\ commands[i].body.documents = DocPtr
       /\ calls[i] = <<[op |-> "runCoverage", arg |-> ctx.documents]>>
       /\ tpc[i] = "done"

\* C16 (as stated): the options the validation operation receives from a
\* validate command: strictFragments is the negation of noStrictFragments
\* (true when unset), apollo is the command's value (false when unset),
\* keepClientFields is false, deprecated is the command's value (false when
\* unset), and maxDepth is the command's value when set, undefined when unset.
C16_OptionsPassedThrough ==
  pc = "validateDocuments called" =>
    LET command == commands[1].body
        runOptions == calls[1][1].arg
        received == calls[1][2].arg
    IN /\ received.strictFragments =
            (IF command.noStrictFragments = "true" THEN "false" ELSE "true")
       /\ received.apollo = (IF command.apollo = "true" THEN "true" ELSE "false")
       /\ received.keepClientFields = "false"
       /\ runOptions.deprecated =
            (IF command.deprecated = "true" THEN "true" ELSE "false")
       /\ received.maxDepth = command.maxDepth

\* Vocabulary of the claims about what a task may write.
IsPrefix(s, t) == Len(s) <= Len(t) /\ \A k \in 1..Len(s) : s[k] = t[k]

\* The tasks that took a step: those whose position changed.
Stepped == {i \in 1..Len(tpc) : tpc'[i] # tpc[i]}

\* C17: from the start of the fan-out on, no step changes the context's
\* config, project, schema or documents, nor the number or order of the
\* buffers; a step in which a buffer changes is the step of exactly one task,
\* the owner of that buffer, which appends to it and leaves every other
\* buffer as it was; and every banner in a buffer is its owner's.
C17_TasksWriteOnlyOwnBuffer ==
  [][FanOutBegun =>
       /\ ctx' = ctx
       /\ commands' = commands
       /\ Len(renderers') = Len(renderers)
       /\ \A j \in 1..Len(renderers) :
            /\ IsPrefix(renderers[j], renderers'[j])
            /\ renderers'[j] # renderers[j] => Stepped = {j}
            /\ \A k \in BannerLines(renderers'[j]) :
                 renderers'[j][k] = Banner(commands[j].label)
       /\ (pc = "fan-out" /\ okWrites' # okWrites) =>
            /\ okWrites' = Append(okWrites, FALSE)
            /\ Cardinality(Stepped) = 1]_vars

\* C17 witness: two tasks are both suspended on their collaborators, each
\* with only its own banner in its own buffer, while the context still holds
\* the setup's documents.
C17_Witness ==
  /\ pc = "fan-out"
  /\ NTasks = 2
  /\ ctx.documents = "projectDocuments"
  /\ \A i \in 1..2 : /\ tpc[i] \notin {"created", "done"}
                     /\ renderers[i] = <<Banner(commands[i].label)>>
  /\ commands[1].label # commands[2].label

\* Vocabulary of the claims about the setup stages.
LogOf(title) == SelectSeq(log, LAMBDA e : e.title = title)

\* C18: the 'Loading documents' stage is skipped exactly when the project
\* declares no documents; after a skip the context holds no documents and the
\* run goes on to the fan-out; a stage that ran and succeeded has set the
\* context's documents; a stage that failed ends the run with its error, no
\* renderer and no task ever created; and no fan-out begins before the stage
\* was either skipped or done.
C18_DocumentStage ==
  LET entries == LogOf("Loading documents") IN
  /\ Len(entries) <= 1
  /\ Len(entries) = 1 =>
       /\ entries[1].result = "skipped" <=> ctx.project.documents = None
       /\ entries[1].result = "skipped" =>
            /\ ctx.documents = None
            /\ pc = "Running commands" \/ FanOutBegun
            /\ pc = "Running commands" => ENABLED RunningCommands
       /\ entries[1].result = "done" =>
            /\ ctx.documents = "projectDocuments"
            /\ pc = "Running commands" \/ FanOutBegun
       /\ entries[1].result = "failed" =>
            /\ ~FanOutBegun
            /\ renderers = <<>> /\ tpc = <<>> /\ commands = <<>>
            /\ pc \in {"catch", "exited"}
            /\ thrown = ErrDocuments
            /\ Last(log).title = "Loading documents"
  /\ FanOutBegun =>
       /\ Len(entries) = 1
       /\ entries[1].result \in {"skipped", "done"}
  /\ (Len(entries) = 0 /\ ~SetupFailed) =>
       pc \in {"Loading config", "Picking project", "Checking for extension",
               "Loading schema", "Loading documents"}

\* C18 witness: the stage was skipped, the fan-out ran without pre-loaded
\* documents, and a task loaded its command's own documents and handed them
\* to its collaborator.
C18_Witness ==
  /\ LogOf("Loading documents") = <<[title |-> "Loading documents", result |-> "skipped"]>>
  /\ FanOutBegun
  /\ ctx.documents = None
  /\ \E i \in 1..NTasks :
       /\ tpc[i] = "done"
       /\ Len(calls[i]) = 2
       /\ calls[i][2].arg = "commandDocuments"

\* Vocabulary of the claims about termination.
Terminal == pc \in {"returned", "exited"}

Suspended(i) == i \in DOMAIN tpc /\ tpc[i] \notin {"created", "done"}

\* Every external call eventually returns or fails.
CollaboratorsReturn ==
  /\ WF_vars(LoadingConfig)
  /\ WF_vars(LoadingSchema)
  /\ WF_vars(LoadingDocuments)
  /\ \A i \in 1..MaxCmds : WF_vars(CollaboratorReturns(i))

\* C19: if every external call eventually returns or fails, the run
\* eventually returns or exits; the fan-out stage is done, and the run
\* terminal, only when every task has settled; and a run in which some call
\* never returns never becomes terminal, stated by its contrapositive: in a
\* terminal state, from which no step leads away, no task is suspended on a
\* call.
C19_TerminatesIffCollaboratorsReturn ==
  /\ CollaboratorsReturn => <>Terminal
  /\ []((FanOutBegun /\ (Terminal \/ pc \in {"flush", "catch"})) => AllTasksDone)
  /\ [](Terminal => /\ \A i \in 1..MaxCmds : ~Suspended(i)
                    /\ ~ENABLED Next)

\* C19 witness: a run with two tasks, all of whose calls returned, has ended
\* with a normal return.
C19_Witness ==
  /\ pc = "returned"
  /\ NTasks = 2
  /\ AllTasksDone
  /\ \A i \in 1..2 : calls[i] # <<>>

====
